---- MODULE Spec2Model ----
(***************************************************************************)
(* A model of boto.gs.bucket.Bucket, the Google Cloud Storage bucket       *)
(* client.  One client object talks to a transport (connection.make_request *)
(* and the primitives inherited from boto.s3.bucket.Bucket).  Every public  *)
(* method is one action; the grant convenience methods, which make several  *)
(* round trips, are split at each round trip.  The state records the call   *)
(* being made, the requests it has put on the wire, the responses it got    *)
(* back and how it ended.                                                   *)
(*                                                                          *)
(* Strings that the code builds with '%' and '+' are built here with \o;    *)
(* XML documents are sequences of tokens (tags and text) so that their      *)
(* structure can be inspected.  An optional Python argument is None (<<>>)  *)
(* or Some(v) (<<v>>).                                                      *)
(*                                                                          *)
(* iter is the paged sequence list_versions returned, while it is being     *)
(* enumerated (SpecList).  server and clients are a bucket ACL held by the  *)
(* server and two clients adding grants to it at the same time (SpecConc).  *)
(***************************************************************************)
EXTENDS Integers, Sequences, FiniteSets, TLC

VARIABLES pc, call, reqs, resps, delegs, result, optimized, acl, keys, idx,
          iter, server, clients

vars ==
    <<pc, call, reqs, resps, delegs, result, optimized, acl, keys, idx,
      iter, server, clients>>

-----------------------------------------------------------------------------
(* Bounds of the model *)

\* generations range over 0..MaxGen
MaxGen == 2
\* an ACL served by the transport has at most MaxAclLen grants
MaxAclLen == 2
\* a bucket listing has at most MaxKeys keys
MaxKeys == 2

-----------------------------------------------------------------------------
(* Python values *)

None == <<>>

Some(v) == <<v>>

\* truth value of an optional int: None and 0 are false
TruthyInt(o) == o # None /\ o[1] # 0

\* truth value of an optional string: None and '' are false
TruthyStr(o) == o # None /\ o[1] # ""

\* truth value of an optional dict (a set of <<name, value>> pairs)
TruthyDict(o) == o # None /\ o[1] # {}

\* key_name or ''
OrEmpty(o) == IF TruthyStr(o) THEN o ELSE Some("")

-----------------------------------------------------------------------------
(* Constants of the module and of the provider *)

DEF_OBJ_ACL == "defaultObjectAcl"

STANDARD_ACL == "acl"

CORS_ARG == "cors"

CannedACLStrings ==
    {"private", "public-read", "project-private", "public-read-write",
     "authenticated-read", "bucket-owner-read", "bucket-owner-full-control"}

GSPermissions == {"READ", "WRITE", "FULL_CONTROL"}

acl_header == "x-goog-acl"

XmlDecl == "<?xml version=\"1.0\" encoding=\"UTF-8\"?>"

WebsiteMainPageFragment(s) == <<"<MainPageSuffix>", s, "</MainPageSuffix>">>

WebsiteErrorFragment(s) == <<"<NotFoundPage>", s, "</NotFoundPage>">>

WebsiteBody(a, b) ==
    <<XmlDecl, "\n", "<WebsiteConfiguration>">> \o a \o b
        \o <<"</WebsiteConfiguration>">>

-----------------------------------------------------------------------------
(* Requests, responses and results *)

NoData == <<>>

Req(method, key_name, query_args, headers, data) ==
    [method |-> method, key |-> key_name, query |-> query_args,
     headers |-> headers, data |-> data]

Resp(status, reason, body) ==
    [status |-> status, reason |-> reason, body |-> body]

NoValue == <<>>

Return(v) ==
    [kind |-> "return", exc |-> "", status |-> 0, reason |-> "",
     body |-> <<>>, value |-> v]

Raise(exc) ==
    [kind |-> "raise", exc |-> exc, status |-> 0, reason |-> "",
     body |-> <<>>, value |-> NoValue]

storage_response_error(status, reason, body) ==
    [kind |-> "raise", exc |-> "StorageResponseError", status |-> status,
     reason |-> reason, body |-> body, value |-> NoValue]

Pending == Raise("")

\* what a call (or a part of one) did: the requests it sent, the responses it
\* read, the delegations to inherited primitives, and how it ended
Effect(rq, rs, dl, res) ==
    [reqs |-> rq, resps |-> rs, delegs |-> dl, result |-> res]

-----------------------------------------------------------------------------
(* ACL documents (boto.gs.acl) *)

Grant(type, id, permission) ==
    [type |-> type, id |-> id, perm |-> permission]

\* ACL.to_xml: <AccessControlList><Entries>(<Entry>scope id perm</Entry>)*...
RECURSIVE EntriesXml(_)
EntriesXml(entries) ==
    IF entries = <<>> THEN <<>>
    ELSE <<"<Entry>", entries[1].type, entries[1].id, entries[1].perm,
           "</Entry>">> \o EntriesXml(Tail(entries))

to_xml(entries) ==
    <<"<AccessControlList>", "<Entries>">> \o EntriesXml(entries)
        \o <<"</Entries>", "</AccessControlList>">>

\* xml.sax.parseString(body, XmlHandler(acl)): the entries of the document
ParseAcl(body) ==
    [i \in 1..((Len(body) - 4) \div 5) |->
        Grant(body[5 * i - 1], body[5 * i], body[5 * i + 1])]

\* ACL.add_email_grant / add_user_grant / add_group_email_grant
add_grant(entries, type, id, permission) ==
    Append(entries, Grant(type, id, permission))

-----------------------------------------------------------------------------
(* The transport: connection.make_request and what it may answer *)

\* one round trip: the request sent and the response read
Exchange(req, resp, res) == Effect(<<req>>, <<resp>>, <<>>, res)

\* a call that ended before any I/O
NoIO(res) == Effect(<<>>, <<>>, <<>>, res)

SeqsUpTo(S, n) == UNION {[1..k -> S] : k \in 0..n}

BaseGrants ==
    {Grant("UserById", "owner-id", "FULL_CONTROL"),
     Grant("GroupByDomain", "example.com", "READ")}

\* the ACLs a server may hold
Acls == SeqsUpTo(BaseGrants, MaxAclLen)

ErrResponses ==
    {Resp(204, "No Content", <<>>),
     Resp(404, "Not Found", <<"<Error>", "NoSuchBucket", "</Error>">>),
     Resp(500, "Internal Server Error", <<"<Error>", "InternalError", "</Error>">>)}

OkEmpty == Resp(200, "OK", <<>>)

PutResponses == {OkEmpty} \cup ErrResponses

AclGetResponses == {Resp(200, "OK", to_xml(a)) : a \in Acls} \cup ErrResponses

-----------------------------------------------------------------------------
(* Inputs *)

KeyNames == {None, Some(""), Some("k1")}

Generations == {None} \cup {Some(g) : g \in 0..MaxGen}

HeaderArgs == {None, Some({}), Some({<<"x-goog-api-version", "2">>})}

PolicyObj == [tag |-> "Policy", entries |-> <<>>, s |-> ""]

AclObj(entries) == [tag |-> "ACL", entries |-> entries, s |-> ""]

StrObj(s) == [tag |-> "str", entries |-> <<>>, s |-> s]

\* canned-ACL strings tried: two members of CannedACLStrings and one non-member
AclStrings == {"private", "public-read", "bogus-acl"}

AclInputs ==
    {PolicyObj} \cup {AclObj(a) : a \in Acls} \cup {StrObj(s) : s \in AclStrings}

-----------------------------------------------------------------------------
(* ACL operations *)

\* query_args = base; if generation: query_args += '&generation=%s' % generation
GenQuery(base, generation) ==
    IF TruthyInt(generation)
    THEN base \o "&generation=" \o ToString(generation[1])
    ELSE base

\* headers[name] = value on a dict
SetItem(d, name, value) == {p \in d : p[1] # name} \cup {<<name, value>>}

\* get_acl_helper without its test of the status
get_acl_helper_partial(key_name, headers, query_args, resp) ==
    Exchange(Req("GET", key_name, query_args, headers, NoData), resp,
             Return(ParseAcl(resp.body)))

get_acl_helper(key_name, headers, query_args, resp) ==
    Exchange(Req("GET", key_name, query_args, headers, NoData), resp,
             IF resp.status = 200
             THEN Return(ParseAcl(resp.body))
             ELSE storage_response_error(resp.status, resp.reason, resp.body))

get_acl(key_name, headers, generation, resp) ==
    get_acl_helper(key_name, headers, GenQuery(STANDARD_ACL, generation), resp)

get_def_acl(key_name, headers, resp) ==
    get_acl_helper(Some(""), headers, DEF_OBJ_ACL, resp)

set_canned_acl_helper(acl_str, key_name, headers, query_args, resp) ==
    IF ~optimized /\ acl_str \notin CannedACLStrings
    THEN NoIO(Raise("AssertionError"))
    ELSE LET h == IF TruthyDict(headers)
                  THEN Some(SetItem(headers[1], acl_header, acl_str))
                  ELSE Some({<<acl_header, acl_str>>})
         IN  Exchange(Req("PUT", key_name, query_args, h, NoData), resp,
                      IF resp.status # 200
                      THEN storage_response_error(resp.status, resp.reason,
                                                  resp.body)
                      ELSE Return(None))

set_canned_acl(acl_str, key_name, headers, generation, resp) ==
    set_canned_acl_helper(acl_str, key_name, headers,
                          GenQuery(STANDARD_ACL, generation), resp)

\* set_def_canned_acl passing its key_name on
set_def_canned_acl_keyed(acl_str, key_name, headers, resp) ==
    set_canned_acl_helper(acl_str, key_name, headers, DEF_OBJ_ACL, resp)

set_def_canned_acl(acl_str, key_name, headers, resp) ==
    set_canned_acl_helper(acl_str, Some(""), headers, DEF_OBJ_ACL, resp)

\* boto.s3.bucket.Bucket.set_xml_acl: PUT the document to the sub-resource
set_xml_acl(acl_str, key_name, headers, query_args, resp) ==
    Exchange(Req("PUT", key_name, query_args, headers, acl_str), resp,
             IF resp.status # 200
             THEN storage_response_error(resp.status, resp.reason, resp.body)
             ELSE Return(None))

set_def_xml_acl(acl_str, key_name, headers, resp) ==
    set_xml_acl(acl_str, Some(""), headers, DEF_OBJ_ACL, resp)

\* set_acl testing for a Policy only after the PUT
set_acl_late_check(acl_or_str, key_name, headers, generation, resp) ==
    LET x == set_xml_acl(to_xml(acl_or_str.entries), OrEmpty(key_name),
                         headers, GenQuery(STANDARD_ACL, generation), resp)
    IN  IF acl_or_str.tag = "Policy"
        THEN Effect(x.reqs, x.resps, x.delegs, Raise("InvalidAclError"))
        ELSE IF acl_or_str.tag = "ACL"
        THEN x
        ELSE set_canned_acl(acl_or_str.s, OrEmpty(key_name), headers,
                            generation, resp)

set_acl(acl_or_str, key_name, headers, generation, resp) ==
    IF acl_or_str.tag = "Policy"
    THEN NoIO(Raise("InvalidAclError"))
    ELSE IF acl_or_str.tag = "ACL"
    THEN set_xml_acl(to_xml(acl_or_str.entries), OrEmpty(key_name), headers,
                     GenQuery(STANDARD_ACL, generation), resp)
    ELSE set_canned_acl(acl_or_str.s, OrEmpty(key_name), headers, generation,
                        resp)

set_def_acl(acl_or_str, key_name, headers, resp) ==
    IF acl_or_str.tag = "Policy"
    THEN NoIO(Raise("InvalidAclError"))
    ELSE IF acl_or_str.tag = "ACL"
    THEN set_def_xml_acl(to_xml(acl_or_str.entries), Some(""), headers, resp)
    ELSE set_def_canned_acl(acl_or_str.s, Some(""), headers, resp)

-----------------------------------------------------------------------------
(* CORS, storage class, website and versioning *)

\* boto.jsonresponse.XmlHandler(e, None).parse(body): the root element and
\* its children, a document being <Root> (<Child> text </Child>)* </Root>
ParseElement(body) ==
    [root |-> body[1],
     kids |-> [i \in 1..((Len(body) - 2) \div 3) |->
                  <<body[3 * i - 1], body[3 * i]>>]]

\* handler.XmlHandler(cors, self): the collections inside <CorsConfig>
ParseCors(body) == SubSeq(body, 2, Len(body) - 1)

CorsDocs ==
    {<<"<CorsConfig>", "</CorsConfig>">>,
     <<"<CorsConfig>", "<Cors>", "<Origin>", "*", "</Origin>", "</Cors>",
       "</CorsConfig>">>}

CorsGetResponses == {Resp(200, "OK", d) : d \in CorsDocs} \cup ErrResponses

StorageClassGetResponses ==
    {Resp(200, "OK", <<"<StorageClass>", c, "</StorageClass>">>) :
        c \in {"STANDARD", "DURABLE_REDUCED_AVAILABILITY"}} \cup ErrResponses

WebsiteDocs ==
    {<<"<WebsiteConfiguration>", "</WebsiteConfiguration>">>,
     <<"<WebsiteConfiguration>", "<MainPageSuffix>", "index.html",
       "</MainPageSuffix>", "</WebsiteConfiguration>">>,
     <<"<WebsiteConfiguration>", "<MainPageSuffix>", "index.html",
       "</MainPageSuffix>", "<NotFoundPage>", "404.html", "</NotFoundPage>",
       "</WebsiteConfiguration>">>}

WebsiteGetResponses == {Resp(200, "OK", d) : d \in WebsiteDocs} \cup ErrResponses

VersioningDocs ==
    {<<"<VersioningConfiguration>", "</VersioningConfiguration>">>,
     <<"<VersioningConfiguration>", "<Status>", "Enabled", "</Status>",
       "</VersioningConfiguration>">>,
     <<"<VersioningConfiguration>", "<Status>", "Suspended", "</Status>",
       "</VersioningConfiguration>">>}

VersioningGetResponses ==
    {Resp(200, "OK", d) : d \in VersioningDocs} \cup ErrResponses

\* main_page_suffix and error_key: absent, empty, or a name
PageArgs(name) == {None, Some(""), Some(name)}

get_cors(headers, resp) ==
    Exchange(Req("GET", Some(""), CORS_ARG, headers, NoData), resp,
             IF resp.status = 200
             THEN Return(ParseCors(resp.body))
             ELSE storage_response_error(resp.status, resp.reason, resp.body))

set_cors(cors, headers, resp) ==
    Exchange(Req("PUT", Some(""), CORS_ARG, headers, cors), resp,
             IF resp.status # 200
             THEN storage_response_error(resp.status, resp.reason, resp.body)
             ELSE Return(None))

get_storage_class(resp) ==
    Exchange(Req("GET", Some(""), "storageClass", None, NoData), resp,
             IF resp.status = 200
             THEN Return(resp.body[2])
             ELSE storage_response_error(resp.status, resp.reason, resp.body))

\* configure_website with the two fragments exchanged
configure_website_swapped(main_page_suffix, error_key, headers, resp) ==
    LET main_page_frag == IF TruthyStr(main_page_suffix)
                          THEN WebsiteMainPageFragment(main_page_suffix[1])
                          ELSE <<>>
        error_frag == IF TruthyStr(error_key)
                      THEN WebsiteErrorFragment(error_key[1])
                      ELSE <<>>
    IN  Exchange(Req("PUT", Some(""), "websiteConfig", headers,
                     WebsiteBody(error_frag, main_page_frag)), resp,
                 IF resp.status = 200
                 THEN Return(TRUE)
                 ELSE storage_response_error(resp.status, resp.reason,
                                             resp.body))

configure_website(main_page_suffix, error_key, headers, resp) ==
    LET main_page_frag == IF TruthyStr(main_page_suffix)
                          THEN WebsiteMainPageFragment(main_page_suffix[1])
                          ELSE <<>>
        error_frag == IF TruthyStr(error_key)
                      THEN WebsiteErrorFragment(error_key[1])
                      ELSE <<>>
    IN  Exchange(Req("PUT", Some(""), "websiteConfig", headers,
                     WebsiteBody(main_page_frag, error_frag)), resp,
                 IF resp.status = 200
                 THEN Return(TRUE)
                 ELSE storage_response_error(resp.status, resp.reason,
                                             resp.body))

\* self.configure_website(headers=headers); the result is dropped
delete_website_configuration(headers, resp) ==
    LET e == configure_website(None, None, headers, resp)
    IN  Effect(e.reqs, e.resps, e.delegs,
               IF e.result.kind = "return" THEN Return(None) ELSE e.result)

get_website_configuration_with_xml(headers, resp) ==
    Exchange(Req("GET", Some(""), "websiteConfig", headers, NoData), resp,
             IF resp.status # 200
             THEN storage_response_error(resp.status, resp.reason, resp.body)
             ELSE Return(<<ParseElement(resp.body), resp.body>>))

\* self.get_website_configuration_xml(self, headers)[0]: this class defines no
\* method of that name (AttributeError); where the base class defines one, it
\* takes headers only and is handed two arguments (TypeError)
get_website_configuration(headers, base_has_xml) ==
    NoIO(Raise(IF base_has_xml THEN "TypeError" ELSE "AttributeError"))

get_versioning_status(headers, resp) ==
    Exchange(Req("GET", Some(""), "versioning", headers, NoData), resp,
             IF resp.status # 200
             THEN storage_response_error(resp.status, resp.reason, resp.body)
             ELSE LET resp_json == ParseElement(resp.body).kids
                  IN  Return(\E i \in DOMAIN resp_json :
                                /\ resp_json[i][1] = "<Status>"
                                /\ resp_json[i][2] = "Enabled"))

-----------------------------------------------------------------------------
(* Versioning configuration *)

\* VersioningBody % status
VersioningBody(status) ==
    <<XmlDecl, "\n", "<VersioningConfiguration>", "<Status>", status,
      "</Status>", "</VersioningConfiguration>">>

\* boto.s3.bucket.Bucket.set_subresource: PUT the value to the sub-resource
set_subresource(subresource, value, headers, resp) ==
    Effect(<<Req("PUT", Some(""), subresource, headers, value)>>,
           <<resp>>,
           <<[fn |-> "set_subresource", subresource |-> subresource,
              value |-> value, headers |-> headers]>>,
           IF resp.status # 200
           THEN storage_response_error(resp.status, resp.reason, resp.body)
           ELSE Return(None))

\* configure_versioning with the two status words exchanged
configure_versioning_inverted(enabled, headers, resp) ==
    set_subresource("versioning",
                    IF enabled = TRUE
                    THEN VersioningBody("Suspended")
                    ELSE VersioningBody("Enabled"),
                    headers, resp)

configure_versioning(enabled, headers, resp) ==
    set_subresource("versioning",
                    IF enabled = TRUE
                    THEN VersioningBody("Enabled")
                    ELSE VersioningBody("Suspended"),
                    headers, resp)

-----------------------------------------------------------------------------
(* Keys *)

\* a call of a primitive inherited from boto.s3.bucket.Bucket
Deleg(fn, key_name, headers, query_args_l) ==
    [fn |-> fn, key |-> key_name, headers |-> headers,
     query_args_l |-> query_args_l]

\* a Key object of the bucket
KeyObj(key_name) == <<"Key">> \o key_name

RECURSIVE Join(_)
\* '&'.join(l)
Join(l) ==
    IF l = <<>> THEN ""
    ELSE IF Len(l) = 1 THEN l[1]
    ELSE l[1] \o "&" \o Join(Tail(l))

KeyResponses ==
    {Resp(200, "OK", <<>>), Resp(204, "No Content", <<>>),
     Resp(404, "Not Found", <<>>),
     Resp(500, "Internal Server Error", <<"<Error>", "InternalError", "</Error>">>)}

\* response_headers: absent, empty, or one override
ResponseHeaderArgs ==
    {None, Some({}), Some({<<"response-content-type", "text/plain">>})}

\* Bucket._get_key_internal: HEAD the key; a 2xx answer gives the key, any
\* 404 gives None, anything else is an error
get_key_internal(key_name, headers, query_args_l, resp) ==
    Effect(<<Req("HEAD", key_name, Join(query_args_l), headers, NoData)>>,
           <<resp>>,
           <<Deleg("_get_key_internal", key_name, headers, query_args_l)>>,
           IF resp.status \div 100 = 2 THEN Return(KeyObj(key_name))
           ELSE IF resp.status = 404 THEN Return(None)
           ELSE storage_response_error(resp.status, resp.reason, resp.body))

\* Bucket._delete_key_internal: DELETE the key; 204 is success
delete_key_internal(key_name, headers, query_args_l, resp) ==
    Effect(<<Req("DELETE", key_name, Join(query_args_l), headers, NoData)>>,
           <<resp>>,
           <<Deleg("_delete_key_internal", key_name, headers, query_args_l)>>,
           IF resp.status # 204
           THEN storage_response_error(resp.status, resp.reason, resp.body)
           ELSE Return(None))

\* query_args_l = []; if generation: query_args_l.append('generation=%s' % ...)
GenArgs(generation) ==
    IF TruthyInt(generation)
    THEN <<"generation=" \o ToString(generation[1])>>
    ELSE <<>>

\* urllib is not imported by the module: the loop over a non-empty
\* response_headers stops at its first entry with a NameError
get_key(key_name, headers, response_headers, generation, resp) ==
    IF TruthyDict(response_headers)
    THEN NoIO(Raise("NameError"))
    ELSE get_key_internal(key_name, headers, GenArgs(generation), resp)

delete_key(key_name, headers, generation, resp) ==
    delete_key_internal(key_name, headers, GenArgs(generation), resp)

-----------------------------------------------------------------------------
(* Grants *)

\* permissions tried: two supported ones and one that is not
PermissionInputs == {"READ", "FULL_CONTROL", "EXECUTE"}

GrantHeaderArgs == {None, Some({<<"x-goog-api-version", "2">>})}

KeyIds == {"k1", "k2"}

\* what the bucket may list
Listings == SeqsUpTo(KeyIds, MaxKeys)

ListResponses ==
    {Resp(200, "OK", <<"<ListBucketResult>">> \o l \o <<"</ListBucketResult>">>) :
        l \in Listings} \cup ErrResponses

\* the ACL documents a key may have
KeyAclGetResponses ==
    {Resp(200, "OK", to_xml(a)) : a \in SeqsUpTo(BaseGrants, 1)}
        \cup ErrResponses

\* the grant methods starting from an empty ACL instead of the fetched one
grant_get_fresh(headers, resp) ==
    Exchange(Req("GET", Some(""), STANDARD_ACL, headers, NoData), resp,
             IF resp.status = 200
             THEN Return(<<>>)
             ELSE storage_response_error(resp.status, resp.reason, resp.body))

\* acl = self.get_acl(headers=headers)
grant_get(headers, resp) == get_acl(Some(""), headers, None, resp)

\* the PUT of the ACL as fetched, the grant left out
grant_put_unchanged(entries, type, id, permission, headers, resp) ==
    set_acl(AclObj(entries), Some(""), headers, None, resp)

\* acl.add_..._grant(permission, id); self.set_acl(acl, headers=headers)
grant_put(entries, type, id, permission, headers, resp) ==
    set_acl(AclObj(add_grant(entries, type, id, permission)), Some(""),
            headers, None, resp)

\* for key in self: the listing request of the inherited iterator
list_keys(resp) ==
    Exchange(Req("GET", Some(""), "", None, NoData), resp,
             IF resp.status = 200
             THEN Return(SubSeq(resp.body, 2, Len(resp.body) - 1))
             ELSE storage_response_error(resp.status, resp.reason, resp.body))

-----------------------------------------------------------------------------
(* The state machine *)

\* no paged sequence is being enumerated
NoIter == [state |-> "None"]

Init ==
    /\ pc = "idle"
    /\ call = [op |-> "none"]
    /\ reqs = <<>>
    /\ resps = <<>>
    /\ delegs = <<>>
    /\ result = Return(None)
    /\ optimized \in BOOLEAN
    /\ acl = <<>>
    /\ keys = <<>>
    /\ idx = 0
    /\ iter = NoIter
    /\ server = <<>>
    /\ clients = <<>>

\* a call c that ran to its end with effect e
Done(c, e) ==
    /\ pc' = "done"
    /\ call' = c
    /\ reqs' = e.reqs
    /\ resps' = e.resps
    /\ delegs' = e.delegs
    /\ result' = e.result
    /\ acl' = <<>>
    /\ keys' = <<>>
    /\ idx' = 0
    /\ UNCHANGED <<optimized, iter, server, clients>>

\* one more round trip e of the call in progress, which goes on at `next`
\* unless e raised
Step(e, next, entries, listing, i) ==
    /\ reqs' = reqs \o e.reqs
    /\ resps' = resps \o e.resps
    /\ delegs' = delegs \o e.delegs
    /\ IF e.result.kind = "raise"
       THEN pc' = "done" /\ result' = e.result
            /\ acl' = <<>> /\ keys' = <<>> /\ idx' = 0
       ELSE IF next = "done"
       THEN pc' = "done" /\ result' = Return(None)
            /\ acl' = <<>> /\ keys' = <<>> /\ idx' = 0
       ELSE pc' = next /\ result' = Pending
            /\ acl' = entries /\ keys' = listing /\ idx' = i
    /\ UNCHANGED <<call, optimized, iter, server, clients>>

Call_get_acl ==
    /\ pc = "idle"
    /\ \E key_name \in KeyNames, headers \in HeaderArgs,
          generation \in Generations, resp \in AclGetResponses :
          Done([op |-> "get_acl", key_name |-> key_name, headers |-> headers,
                generation |-> generation],
               get_acl(key_name, headers, generation, resp))

Call_get_def_acl ==
    /\ pc = "idle"
    /\ \E key_name \in KeyNames, headers \in HeaderArgs,
          resp \in AclGetResponses :
          Done([op |-> "get_def_acl", key_name |-> key_name,
                headers |-> headers],
               get_def_acl(key_name, headers, resp))

Call_set_acl ==
    /\ pc = "idle"
    /\ \E acl_or_str \in AclInputs, key_name \in KeyNames,
          headers \in HeaderArgs, generation \in Generations,
          resp \in PutResponses :
          Done([op |-> "set_acl", acl_or_str |-> acl_or_str,
                key_name |-> key_name, headers |-> headers,
                generation |-> generation],
               set_acl(acl_or_str, key_name, headers, generation, resp))

Call_set_def_acl ==
    /\ pc = "idle"
    /\ \E acl_or_str \in AclInputs, key_name \in KeyNames,
          headers \in HeaderArgs, resp \in PutResponses :
          Done([op |-> "set_def_acl", acl_or_str |-> acl_or_str,
                key_name |-> key_name, headers |-> headers],
               set_def_acl(acl_or_str, key_name, headers, resp))

Call_set_canned_acl ==
    /\ pc = "idle"
    /\ \E acl_str \in AclStrings, key_name \in KeyNames,
          headers \in HeaderArgs, generation \in Generations,
          resp \in PutResponses :
          Done([op |-> "set_canned_acl", acl_str |-> acl_str,
                key_name |-> key_name, headers |-> headers,
                generation |-> generation],
               set_canned_acl(acl_str, key_name, headers, generation, resp))

Call_set_def_canned_acl ==
    /\ pc = "idle"
    /\ \E acl_str \in AclStrings, key_name \in KeyNames,
          headers \in HeaderArgs, resp \in PutResponses :
          Done([op |-> "set_def_canned_acl", acl_str |-> acl_str,
                key_name |-> key_name, headers |-> headers],
               set_def_canned_acl(acl_str, key_name, headers, resp))

Call_set_def_xml_acl ==
    /\ pc = "idle"
    /\ \E a \in Acls, key_name \in KeyNames, headers \in HeaderArgs,
          resp \in PutResponses :
          Done([op |-> "set_def_xml_acl", acl_str |-> to_xml(a),
                key_name |-> key_name, headers |-> headers],
               set_def_xml_acl(to_xml(a), key_name, headers, resp))

Call_get_cors ==
    /\ pc = "idle"
    /\ \E headers \in HeaderArgs, resp \in CorsGetResponses :
          Done([op |-> "get_cors", headers |-> headers],
               get_cors(headers, resp))

Call_set_cors ==
    /\ pc = "idle"
    /\ \E cors \in CorsDocs, headers \in HeaderArgs, resp \in PutResponses :
          Done([op |-> "set_cors", cors |-> cors, headers |-> headers],
               set_cors(cors, headers, resp))

Call_get_storage_class ==
    /\ pc = "idle"
    /\ \E resp \in StorageClassGetResponses :
          Done([op |-> "get_storage_class"], get_storage_class(resp))

Call_configure_website ==
    /\ pc = "idle"
    /\ \E main_page_suffix \in PageArgs("index.html"),
          error_key \in PageArgs("404.html"), headers \in HeaderArgs,
          resp \in PutResponses :
          Done([op |-> "configure_website",
                main_page_suffix |-> main_page_suffix,
                error_key |-> error_key, headers |-> headers],
               configure_website(main_page_suffix, error_key, headers, resp))

Call_delete_website_configuration ==
    /\ pc = "idle"
    /\ \E headers \in HeaderArgs, resp \in PutResponses :
          Done([op |-> "delete_website_configuration", headers |-> headers],
               delete_website_configuration(headers, resp))

Call_get_website_configuration ==
    /\ pc = "idle"
    /\ \E headers \in HeaderArgs, base_has_xml \in BOOLEAN :
          Done([op |-> "get_website_configuration", headers |-> headers],
               get_website_configuration(headers, base_has_xml))

Call_get_website_configuration_with_xml ==
    /\ pc = "idle"
    /\ \E headers \in HeaderArgs, resp \in WebsiteGetResponses :
          Done([op |-> "get_website_configuration_with_xml",
                headers |-> headers],
               get_website_configuration_with_xml(headers, resp))

Call_get_versioning_status ==
    /\ pc = "idle"
    /\ \E headers \in HeaderArgs, resp \in VersioningGetResponses :
          Done([op |-> "get_versioning_status", headers |-> headers],
               get_versioning_status(headers, resp))

Call_get_key ==
    /\ pc = "idle"
    /\ \E key_name \in {Some("k1"), Some("k2")}, headers \in HeaderArgs,
          response_headers \in ResponseHeaderArgs,
          generation \in Generations, resp \in KeyResponses :
          Done([op |-> "get_key", key_name |-> key_name, headers |-> headers,
                response_headers |-> response_headers,
                generation |-> generation],
               get_key(key_name, headers, response_headers, generation, resp))

Call_delete_key ==
    /\ pc = "idle"
    /\ \E key_name \in {Some("k1"), Some("k2")}, headers \in HeaderArgs,
          generation \in Generations, resp \in KeyResponses :
          Done([op |-> "delete_key", key_name |-> key_name,
                headers |-> headers, generation |-> generation],
               delete_key(key_name, headers, generation, resp))

Call_configure_versioning ==
    /\ pc = "idle"
    /\ \E enabled \in BOOLEAN, headers \in HeaderArgs, resp \in PutResponses :
          Done([op |-> "configure_versioning", enabled |-> enabled,
                headers |-> headers],
               configure_versioning(enabled, headers, resp))

\* the start of add_email_grant, add_user_grant and add_group_email_grant:
\* the permission check and the GET of the bucket's ACL
GrantBegin(op, type, id) ==
    /\ pc = "idle"
    /\ \E permission \in PermissionInputs, recursive \in BOOLEAN,
          headers \in GrantHeaderArgs, resp \in AclGetResponses :
          LET c == [op |-> op, type |-> type, permission |-> permission,
                    id |-> id, recursive |-> recursive, headers |-> headers]
              e == grant_get(headers, resp)
          IN  IF permission \notin GSPermissions
              THEN Done(c, NoIO(Raise("PermissionsError")))
              ELSE IF e.result.kind = "raise"
              THEN Done(c, e)
              ELSE /\ pc' = "set_acl"
                   /\ call' = c
                   /\ reqs' = e.reqs
                   /\ resps' = e.resps
                   /\ delegs' = e.delegs
                   /\ result' = Pending
                   /\ acl' = e.result.value
                   /\ keys' = <<>>
                   /\ idx' = 0
                   /\ UNCHANGED <<optimized, iter, server, clients>>

Call_add_email_grant ==
    GrantBegin("add_email_grant", "UserByEmail", "a@example.com")

Call_add_user_grant ==
    GrantBegin("add_user_grant", "UserById", "user-id-1")

Call_add_group_email_grant ==
    GrantBegin("add_group_email_grant", "GroupByEmail", "g@example.com")

\* the keys walked whatever the recursive flag says
GrantSetAcl_always_recursive ==
    /\ pc = "set_acl"
    /\ \E resp \in PutResponses :
          Step(grant_put(acl, call.type, call.id, call.permission,
                         call.headers, resp),
               "list", <<>>, <<>>, 0)

\* the grant is appended and the ACL is PUT back
GrantSetAcl ==
    /\ pc = "set_acl"
    /\ \E resp \in PutResponses :
          Step(grant_put(acl, call.type, call.id, call.permission,
                         call.headers, resp),
               IF call.recursive THEN "list" ELSE "done", <<>>, <<>>, 0)

\* recursive: the keys of the bucket are listed
GrantList ==
    /\ pc = "list"
    /\ \E resp \in ListResponses :
          LET e == list_keys(resp)
              listing == IF e.result.kind = "return"
                         THEN e.result.value ELSE <<>>
          IN  Step(e, IF listing = <<>> THEN "done" ELSE "key_get",
                   <<>>, listing, 1)

\* recursive: key.add_..._grant of key idx, its GET
GrantKeyGet ==
    /\ pc = "key_get"
    /\ \E resp \in KeyAclGetResponses :
          LET e == get_acl(Some(keys[idx]), call.headers, None, resp)
          IN  Step(e, "key_put",
                   IF e.result.kind = "return" THEN e.result.value ELSE <<>>,
                   keys, idx)

\* recursive: key.add_..._grant of key idx, its PUT
GrantKeyPut ==
    /\ pc = "key_put"
    /\ \E resp \in PutResponses :
          Step(set_acl(AclObj(add_grant(acl, call.type, call.id,
                                        call.permission)),
                       Some(keys[idx]), call.headers, None, resp),
               IF idx < Len(keys) THEN "key_get" ELSE "done",
               <<>>, keys, idx + 1)

\* the caller has taken the outcome of the call; the record of the next call
\* starts empty
NextCall ==
    /\ pc = "done"
    /\ pc' = "idle"
    /\ call' = [op |-> "none"]
    /\ reqs' = <<>>
    /\ resps' = <<>>
    /\ delegs' = <<>>
    /\ result' = Return(None)
    /\ acl' = <<>>
    /\ keys' = <<>>
    /\ idx' = 0
    /\ iter' = NoIter
    /\ UNCHANGED <<optimized, server, clients>>

Next ==
    \/ Call_get_acl
    \/ Call_get_def_acl
    \/ Call_set_acl
    \/ Call_set_def_acl
    \/ Call_set_canned_acl
    \/ Call_set_def_canned_acl
    \/ Call_set_def_xml_acl
    \/ Call_get_cors
    \/ Call_set_cors
    \/ Call_get_storage_class
    \/ Call_configure_website
    \/ Call_delete_website_configuration
    \/ Call_get_website_configuration
    \/ Call_get_website_configuration_with_xml
    \/ Call_get_versioning_status
    \/ Call_get_key
    \/ Call_delete_key
    \/ Call_configure_versioning
    \/ Call_add_email_grant
    \/ Call_add_user_grant
    \/ Call_add_group_email_grant
    \/ GrantSetAcl
    \/ GrantList
    \/ GrantKeyGet
    \/ GrantKeyPut
    \/ NextCall

Spec == Init /\ [][Next]_vars

-----------------------------------------------------------------------------
(* Versioned listing: list_versions and the enumeration of what it returns *)

\* a page holds at most MaxPageItems items
MaxPageItems == 2
\* the transport serves at most MaxPages pages, the last one not truncated
MaxPages == 2

\* (prefix, delimiter, marker, generation_marker) arguments tried
ListArgs == {<<"", "", "", "">>, <<"p/", "/", "k0", "7">>}

\* the version records a page may hold
VersionIds == {"k1", "k2"}

\* the continuation tokens a truncated page may carry
NextMarkers == {<<"k1", "1">>, <<"k2", "2">>}

PageBody(items, truncated, next_marker, next_generation_marker) ==
    <<"<ListBucketResult>",
      "<IsTruncated>", IF truncated THEN "true" ELSE "false", "</IsTruncated>",
      "<NextMarker>", next_marker, "</NextMarker>",
      "<NextGenerationMarker>", next_generation_marker,
      "</NextGenerationMarker>">>
        \o items \o <<"</ListBucketResult>">>

\* the parsed page: rs.is_truncated, rs.next_marker,
\* rs.next_generation_marker and the items of rs
PageTruncated(body) == body[3] = "true"

PageNextMarker(body) == body[6]

PageNextGenerationMarker(body) == body[9]

PageItems(body) == SubSeq(body, 11, Len(body) - 1)

TruncatedPages ==
    {Resp(200, "OK", PageBody(items, TRUE, m[1], m[2])) :
        items \in SeqsUpTo(VersionIds, MaxPageItems), m \in NextMarkers}

LastPages ==
    {Resp(200, "OK", PageBody(items, FALSE, "", "")) :
        items \in SeqsUpTo(VersionIds, MaxPageItems)}

\* list_versions fetching the first page itself
list_versions_eager(prefix, delimiter, marker, generation_marker, headers) ==
    Effect(<<Req("GET", Some(""), "versions", headers, NoData)>>, <<>>, <<>>,
           Return([prefix |-> prefix, delimiter |-> delimiter,
                   marker |-> marker,
                   generation_marker |-> generation_marker,
                   headers |-> headers]))

\* the VersionedBucketListResultSet is built and returned; nothing is sent
list_versions(prefix, delimiter, marker, generation_marker, headers) ==
    NoIO(Return([prefix |-> prefix, delimiter |-> delimiter,
                 marker |-> marker, generation_marker |-> generation_marker,
                 headers |-> headers]))

\* bucket.get_all_versions(prefix, marker, generation_marker, delimiter,
\* headers): one GET of 'versions', parsed into a page
get_all_versions(prefix, delimiter, marker, generation_marker, headers, resp) ==
    Effect(<<Req("GET", Some(""),
                 "versions&delimiter=" \o delimiter
                     \o "&generation-marker=" \o generation_marker
                     \o "&marker=" \o marker \o "&prefix=" \o prefix,
                 headers, NoData)>>,
           <<resp>>,
           <<[fn |-> "get_all_versions", prefix |-> prefix,
              delimiter |-> delimiter, marker |-> marker,
              generation_marker |-> generation_marker, headers |-> headers]>>,
           IF resp.status = 200
           THEN Return(resp.body)
           ELSE storage_response_error(resp.status, resp.reason, resp.body))

Call_list_versions ==
    /\ pc = "idle"
    /\ \E a \in ListArgs, headers \in GrantHeaderArgs :
          LET e == list_versions(a[1], a[2], a[3], a[4], headers)
          IN  /\ pc' = "done"
              /\ call' = [op |-> "list_versions", prefix |-> a[1],
                          delimiter |-> a[2], marker |-> a[3],
                          generation_marker |-> a[4], headers |-> headers]
              /\ reqs' = e.reqs
              /\ resps' = e.resps
              /\ delegs' = e.delegs
              /\ result' = e.result
              /\ iter' = [state |-> "NotStarted",
                          marker |-> e.result.value.marker,
                          generation_marker |->
                              e.result.value.generation_marker,
                          more_results |-> TRUE, buf |-> <<>>,
                          yielded |-> <<>>]
    /\ UNCHANGED <<optimized, acl, keys, idx, server, clients>>

IterLive == iter.state \in {"NotStarted", "HasBufferedItems"}

\* the enumeration needs a page: more_results holds and nothing is buffered
IterFetch ==
    /\ pc = "done"
    /\ IterLive
    /\ iter.buf = <<>>
    /\ iter.more_results
    /\ \E resp \in (IF Len(resps) + 1 < MaxPages
                   THEN TruncatedPages \cup LastPages \cup ErrResponses
                   ELSE LastPages \cup ErrResponses) :
          LET e == get_all_versions(call.prefix, call.delimiter, iter.marker,
                                    iter.generation_marker, call.headers,
                                    resp)
          IN  /\ reqs' = reqs \o e.reqs
              /\ resps' = resps \o e.resps
              /\ delegs' = delegs \o e.delegs
              /\ IF e.result.kind = "raise"
                 THEN /\ result' = e.result
                      /\ iter' = [iter EXCEPT !.state = "Failed"]
                 ELSE /\ result' = result
                      /\ iter' =
                           [iter EXCEPT
                              !.state = "HasBufferedItems",
                              !.buf = PageItems(e.result.value),
                              !.marker = PageNextMarker(e.result.value),
                              !.generation_marker =
                                  PageNextGenerationMarker(e.result.value),
                              !.more_results = PageTruncated(e.result.value)]
    /\ UNCHANGED <<pc, call, optimized, acl, keys, idx, server, clients>>

\* the enumeration hands the next buffered item to its consumer
IterYield ==
    /\ pc = "done"
    /\ IterLive
    /\ iter.buf # <<>>
    /\ iter' = [iter EXCEPT !.buf = Tail(iter.buf),
                            !.yielded = Append(iter.yielded, Head(iter.buf))]
    /\ UNCHANGED <<pc, call, reqs, resps, delegs, result, optimized, acl,
                   keys, idx, server, clients>>

\* nothing is buffered and the last page was not truncated: the end
IterStop ==
    /\ pc = "done"
    /\ IterLive
    /\ iter.buf = <<>>
    /\ ~iter.more_results
    /\ iter' = [iter EXCEPT !.state = "Exhausted"]
    /\ UNCHANGED <<pc, call, reqs, resps, delegs, result, optimized, acl,
                   keys, idx, server, clients>>

NextList ==
    \/ Call_list_versions
    \/ IterFetch
    \/ IterYield
    \/ IterStop
    \/ NextCall

SpecList == Init /\ [][NextList]_vars

-----------------------------------------------------------------------------
(* Two clients adding grants to one bucket at the same time *)

Clients == {1, 2}

\* the grant methods with the kind of grantee each one adds
GrantCalls ==
    {<<"add_email_grant", "UserByEmail", "a@example.com">>,
     <<"add_user_grant", "UserById", "user-id-1">>,
     <<"add_group_email_grant", "GroupByEmail", "g@example.com">>}

IdleClient ==
    [pc |-> "idle", op |-> "", type |-> "", id |-> "", permission |-> "",
     acl |-> <<>>, kind |-> "", get_at |-> 0, put_at |-> 0]

InitConc ==
    /\ pc = "conc"
    /\ call = [op |-> "none"]
    /\ reqs = <<>>
    /\ resps = <<>>
    /\ delegs = <<>>
    /\ result = Return(None)
    /\ optimized = FALSE
    /\ acl = <<>>
    /\ keys = <<>>
    /\ idx = 0
    /\ iter = NoIter
    /\ server \in Acls
    /\ clients = [c \in Clients |-> IdleClient]

\* the server's answer to the GET of the bucket ACL: the ACL it holds, or an
\* error
ServerGetResponses == {Resp(200, "OK", to_xml(server))} \cup ErrResponses

\* client c calls a grant method (recursive=False): the permission check and
\* the GET of the bucket's ACL
ConcGet(c) ==
    /\ pc = "conc"
    /\ clients[c].pc = "idle"
    /\ \E g \in GrantCalls, permission \in PermissionInputs,
          resp \in ServerGetResponses :
          LET e == IF permission \in GSPermissions
                   THEN grant_get(None, resp)
                   ELSE NoIO(Raise("PermissionsError"))
          IN  /\ reqs' = reqs \o e.reqs
              /\ resps' = resps \o e.resps
              /\ clients' =
                   [clients EXCEPT
                      ![c] = [pc |-> IF e.result.kind = "raise"
                                     THEN "done" ELSE "got",
                              op |-> g[1], type |-> g[2], id |-> g[3],
                              permission |-> permission,
                              acl |-> IF e.result.kind = "raise"
                                      THEN <<>> ELSE e.result.value,
                              kind |-> IF e.result.kind = "raise"
                                       THEN "raise" ELSE "",
                              get_at |-> Len(reqs) + Len(e.reqs),
                              put_at |-> 0]]
    /\ UNCHANGED <<pc, call, delegs, result, optimized, acl, keys, idx, iter,
                   server>>

\* client c appends its grant to the ACL it fetched and PUTs it; on a 200 the
\* server holds what was PUT
ConcPut(c) ==
    /\ pc = "conc"
    /\ clients[c].pc = "got"
    /\ \E resp \in PutResponses :
          LET e == grant_put(clients[c].acl, clients[c].type, clients[c].id,
                             clients[c].permission, None, resp)
          IN  /\ reqs' = reqs \o e.reqs
              /\ resps' = resps \o e.resps
              /\ server' = IF e.reqs # <<>> /\ resp.status = 200
                           THEN ParseAcl(e.reqs[1].data)
                           ELSE server
              /\ clients' =
                   [clients EXCEPT
                      ![c].pc = "done",
                      ![c].kind = e.result.kind,
                      ![c].put_at = Len(reqs) + Len(e.reqs)]
    /\ UNCHANGED <<pc, call, delegs, result, optimized, acl, keys, idx, iter>>

NextConc == \E c \in Clients : ConcGet(c) \/ ConcPut(c)

SpecConc == InitConc /\ [][NextConc]_vars

-----------------------------------------------------------------------------
(* Properties *)

GrantOps == {"add_email_grant", "add_user_grant", "add_group_email_grant"}

AllOk == \A i \in DOMAIN resps : resps[i].status = 200

\* the query string a sub-resource request must carry for a generation
\* argument: the qualifier is there exactly when the argument was passed
ExpectedQuery(base, generation) ==
    IF generation # None
    THEN base \o "&generation=" \o ToString(generation[1])
    ELSE base

\* likewise for the query-argument list handed to the key primitives
ExpectedGenArgs(generation) ==
    IF generation # None
    THEN <<"generation=" \o ToString(generation[1])>>
    ELSE <<>>

\* urllib.quote on the override values used here
urllib_quote(v) == IF v = "text/plain" THEN "text/plain" ELSE "%3F"

\* one '<name>=<url-quoted value>' entry per entry of the override map
ExpectedOverrides(response_headers) ==
    IF response_headers = None \/ response_headers[1] = {}
    THEN <<>>
    ELSE LET p == CHOOSE p \in response_headers[1] : TRUE
         IN  <<p[1] \o "=" \o urllib_quote(p[2])>>

\* C1: a grant call with a supported permission and recursive=False, on a
\* transport that answers 200, issues one GET of 'acl' and then one PUT of
\* 'acl', and the ACL in the PUT is the ACL of the GET with the new grant
\* appended as its last entry.
C1_GrantReadModifyWrite ==
    (/\ pc = "done"
     /\ call.op \in GrantOps
     /\ call.permission \in GSPermissions
     /\ ~call.recursive
     /\ AllOk)
    => /\ Len(reqs) = 2
       /\ reqs[1].method = "GET" /\ reqs[1].query = STANDARD_ACL
       /\ reqs[1].key = Some("") /\ reqs[1].data = NoData
       /\ reqs[2].method = "PUT" /\ reqs[2].query = STANDARD_ACL
       /\ reqs[2].key = Some("")
       /\ ParseAcl(reqs[2].data)
            = Append(ParseAcl(resps[1].body),
                     Grant(call.type, call.id, call.permission))
       /\ result.kind = "return"

C1_Witness ==
    /\ pc = "done"
    /\ call.op = "add_email_grant"
    /\ call.permission = "READ"
    /\ ~call.recursive
    /\ Len(reqs) = 2
    /\ AllOk
    /\ Len(ParseAcl(resps[1].body)) = 2
    /\ Len(ParseAcl(reqs[2].data)) = 3

ReadingOps ==
    {"get_acl", "get_def_acl", "get_cors", "get_storage_class",
     "get_website_configuration_with_xml", "get_versioning_status",
     "set_canned_acl", "set_def_canned_acl", "set_cors", "configure_website"}

\* C2: when an operation that reads the response itself gets a status other
\* than 200, it raises a storage-response error made of exactly that
\* response's status, reason and body, returns nothing, and sends nothing more.
C2_Non200Raises ==
    (/\ pc = "done"
     /\ call.op \in ReadingOps
     /\ Len(resps) >= 1
     /\ resps[1].status # 200)
    => /\ result.kind = "raise"
       /\ result.exc = "StorageResponseError"
       /\ result.status = resps[1].status
       /\ result.reason = resps[1].reason
       /\ result.body = resps[1].body
       /\ result.value = NoValue
       /\ Len(reqs) = 1
       /\ Len(resps) = 1

C2_Witness ==
    /\ pc = "done"
    /\ call.op = "get_acl"
    /\ Len(resps) = 1
    /\ resps[1].status = 500
    /\ result.exc = "StorageResponseError"
    /\ result.body = <<"<Error>", "InternalError", "</Error>">>

\* C3: an S3 Policy handed to set_acl or set_def_acl raises InvalidAclError,
\* and an unsupported permission handed to a grant call raises a permissions
\* error; in both cases nothing at all is sent.
C3_UsageErrorsBeforeIO ==
    /\ (/\ call.op \in {"set_acl", "set_def_acl"}
        /\ call.acl_or_str.tag = "Policy")
       => /\ pc = "done"
          /\ result.kind = "raise" /\ result.exc = "InvalidAclError"
          /\ reqs = <<>> /\ delegs = <<>>
    /\ (/\ call.op \in GrantOps
        /\ call.permission \notin GSPermissions)
       => /\ pc = "done"
          /\ result.kind = "raise" /\ result.exc = "PermissionsError"
          /\ reqs = <<>> /\ delegs = <<>>

C3_Witness ==
    /\ call.op = "set_acl"
    /\ call.acl_or_str.tag = "Policy"
    /\ call.key_name = Some("k1")
    /\ call.generation = Some(1)
    /\ result.exc = "InvalidAclError"
    /\ reqs = <<>>

\* C4: set_canned_acl and set_def_canned_acl send exactly one PUT when the
\* string is a canned ACL, and otherwise fail at once without sending
\* anything, however the program is run.
C4_CannedAclValidated ==
    (/\ pc = "done"
     /\ call.op \in {"set_canned_acl", "set_def_canned_acl"})
    => IF call.acl_str \in CannedACLStrings
       THEN Len(reqs) = 1 /\ reqs[1].method = "PUT"
       ELSE result.kind = "raise" /\ reqs = <<>>

HasHeader(headers, name) ==
    headers # None /\ \E p \in headers[1] : p[1] = name

\* C5: set_acl given an ACL object sends one PUT whose body is acl.to_xml()
\* and that has no canned-ACL header; given a canned-ACL string it sends one
\* PUT with the string in the ACL header and no body; both go to the key name
\* (None read as '') and to 'acl', then '&generation=<n>' when a generation
\* was passed.
C5_SetAclDispatch ==
    (/\ pc = "done"
     /\ call.op = "set_acl"
     /\ call.acl_or_str.tag # "Policy"
     /\ call.acl_or_str.tag = "str" => call.acl_or_str.s \in CannedACLStrings)
    => /\ Len(reqs) = 1
       /\ reqs[1].method = "PUT"
       /\ reqs[1].key = OrEmpty(call.key_name)
       /\ reqs[1].query = ExpectedQuery(STANDARD_ACL, call.generation)
       /\ IF call.acl_or_str.tag = "ACL"
          THEN /\ reqs[1].data = to_xml(call.acl_or_str.entries)
               /\ ~HasHeader(reqs[1].headers, acl_header)
          ELSE /\ reqs[1].data = NoData
               /\ <<acl_header, call.acl_or_str.s>> \in reqs[1].headers[1]

DefOps == {"set_def_acl", "get_def_acl", "set_def_canned_acl", "set_def_xml_acl"}

\* the effect of a default-object-ACL call c when its key_name is k
DefEffect(c, k, resp) ==
    IF c.op = "set_def_acl"
    THEN set_def_acl(c.acl_or_str, k, c.headers, resp)
    ELSE IF c.op = "get_def_acl"
    THEN get_def_acl(k, c.headers, resp)
    ELSE IF c.op = "set_def_canned_acl"
    THEN set_def_canned_acl(c.acl_str, k, c.headers, resp)
    ELSE set_def_xml_acl(c.acl_str, k, c.headers, resp)

\* the bucket-ACL call that corresponds to default-object-ACL call c
BucketEffect(c, resp) ==
    IF c.op = "set_def_acl"
    THEN set_acl(c.acl_or_str, Some(""), c.headers, None, resp)
    ELSE IF c.op = "get_def_acl"
    THEN get_acl(Some(""), c.headers, None, resp)
    ELSE IF c.op = "set_def_canned_acl"
    THEN set_canned_acl(c.acl_str, Some(""), c.headers, None, resp)
    ELSE set_xml_acl(c.acl_str, Some(""), c.headers, STANDARD_ACL, resp)

WithQuery(rq, q) == [i \in DOMAIN rq |-> [rq[i] EXCEPT !.query = q]]

\* C6: the default-object-ACL operations ignore key_name: every request they
\* send has the empty key name and the query 'defaultObjectAcl', the requests
\* are those of the same call made with another key_name, and but for the
\* query they are the requests, with the outcome, of the bucket-ACL operation.
C6_DefAclIgnoresKeyName ==
    (pc = "done" /\ call.op \in DefOps)
    => /\ \A i \in DOMAIN reqs :
            reqs[i].key = Some("") /\ reqs[i].query = DEF_OBJ_ACL
       /\ \A k \in KeyNames :
            \A r \in (IF reqs = <<>> THEN {OkEmpty} ELSE {resps[1]}) :
                reqs = DefEffect(call, k, r).reqs
       /\ \A r \in (IF reqs = <<>> THEN {OkEmpty} ELSE {resps[1]}) :
            /\ reqs = WithQuery(BucketEffect(call, r).reqs, DEF_OBJ_ACL)
            /\ result.kind = BucketEffect(call, r).result.kind
            /\ result.exc = BucketEffect(call, r).result.exc

C6_Witness ==
    /\ pc = "done"
    /\ call.op = "set_def_canned_acl"
    /\ call.key_name = Some("k1")
    /\ Len(reqs) = 1
    /\ reqs[1].key = Some("")
    /\ reqs[1].query = DEF_OBJ_ACL

\* C7: get_key, for any generation and response-header overrides, delegates
\* once to the single-key fetch with 'generation=<g>' when a generation is
\* given and one '<name>=<quoted value>' per override, and returns the key, or
\* None on not-found, without raising.
C7_GetKeyDelegates ==
    (/\ pc = "done"
     /\ call.op = "get_key"
     /\ call.generation # Some(0))
    => /\ Len(delegs) = 1
       /\ delegs[1].fn = "_get_key_internal"
       /\ delegs[1].query_args_l
            = ExpectedGenArgs(call.generation)
                \o ExpectedOverrides(call.response_headers)
       /\ resps[1].status \in {200, 404} => result.kind = "return"
       /\ resps[1].status = 404 => result.value = None

\* C8: get_website_configuration sends one GET of 'websiteConfig' and, on a
\* 200 answer, returns the first component of what
\* get_website_configuration_with_xml returns for the same answer.
C8_GetWebsiteConfiguration ==
    (pc = "done" /\ call.op = "get_website_configuration")
    => /\ Len(reqs) = 1
       /\ reqs[1].method = "GET"
       /\ reqs[1].query = "websiteConfig"
       /\ resps[1].status = 200
            => /\ result.kind = "return"
               /\ result.value
                    = get_website_configuration_with_xml(
                          call.headers, resps[1]).result.value[1]

\* C9: the generation qualifier is in the query exactly when a generation n
\* is passed, 0 included: 'acl&generation=<n>' for get_acl, set_acl and
\* set_canned_acl, and the one entry 'generation=<n>' for get_key and
\* delete_key.
C9_GenerationQualifier ==
    /\ (/\ pc = "done"
        /\ call.op \in {"get_acl", "set_acl", "set_canned_acl"}
        /\ Len(reqs) = 1)
       => reqs[1].query = ExpectedQuery(STANDARD_ACL, call.generation)
    /\ (/\ pc = "done"
        /\ call.op \in {"get_key", "delete_key"}
        /\ Len(delegs) = 1)
       => delegs[1].query_args_l = ExpectedGenArgs(call.generation)

OpenTags == {"<WebsiteConfiguration>", "<MainPageSuffix>", "<NotFoundPage>"}

CloseTags ==
    {"</WebsiteConfiguration>", "</MainPageSuffix>", "</NotFoundPage>"}

RECURSIVE ElementsAt(_, _, _)
\* the <<tag, text>> pairs of the elements opened at depth d of a document,
\* `depth` being the number of elements open before its first token
ElementsAt(doc, depth, d) ==
    IF doc = <<>> THEN <<>>
    ELSE IF doc[1] \in OpenTags
    THEN (IF depth = d
          THEN <<<<doc[1], IF Len(doc) >= 2 THEN doc[2] ELSE "">>>>
          ELSE <<>>) \o ElementsAt(Tail(doc), depth + 1, d)
    ELSE IF doc[1] \in CloseTags
    THEN ElementsAt(Tail(doc), depth - 1, d)
    ELSE ElementsAt(Tail(doc), depth, d)

\* the root elements of a document, and the children of its root
Roots(doc) == [i \in DOMAIN ElementsAt(doc, 0, 0) |-> ElementsAt(doc, 0, 0)[i][1]]

Children(doc) == ElementsAt(doc, 0, 1)

\* an optional argument is given when it is neither None nor empty
Given(o) == o # None /\ o[1] # ""

\* C10: the body configure_website PUTs to 'websiteConfig' has the root
\* WebsiteConfiguration with a MainPageSuffix child iff main_page_suffix is
\* given, a NotFoundPage child iff error_key is given, in that order and with
\* no other child; delete_website_configuration sends the request of
\* configure_website without arguments.
C10_WebsiteBody ==
    /\ (pc = "done" /\ call.op = "configure_website")
       => /\ Len(reqs) = 1
          /\ reqs[1].method = "PUT"
          /\ reqs[1].query = "websiteConfig"
          /\ Roots(reqs[1].data) = <<"<WebsiteConfiguration>">>
          /\ Children(reqs[1].data)
               = (IF Given(call.main_page_suffix)
                  THEN <<<<"<MainPageSuffix>", call.main_page_suffix[1]>>>>
                  ELSE <<>>)
                 \o (IF Given(call.error_key)
                     THEN <<<<"<NotFoundPage>", call.error_key[1]>>>>
                     ELSE <<>>)
    /\ (pc = "done" /\ call.op = "delete_website_configuration")
       => /\ Len(reqs) = 1
          /\ reqs = configure_website(None, None, call.headers, resps[1]).reqs
          /\ Children(reqs[1].data) = <<>>

C10_Witness ==
    /\ pc = "done"
    /\ call.op = "configure_website"
    /\ call.main_page_suffix = Some("index.html")
    /\ call.error_key = Some("404.html")
    /\ Children(reqs[1].data)
         = << <<"<MainPageSuffix>", "index.html">>,
              <<"<NotFoundPage>", "404.html">> >>

RECURSIVE Concat(_)
\* the string a sequence of tokens spells
Concat(doc) == IF doc = <<>> THEN "" ELSE doc[1] \o Concat(Tail(doc))

StatusWord(enabled) == IF enabled THEN "Enabled" ELSE "Suspended"

\* C11 as stated: the body configure_versioning hands to the 'versioning'
\* setter is exactly the XML declaration followed at once by
\* <VersioningConfiguration><Status>S</Status></VersioningConfiguration>,
\* S being Enabled for true and Suspended for false, in one set per call.
C11_VersioningBodyAsStated ==
    (pc = "done" /\ call.op = "configure_versioning")
    => /\ Len(delegs) = 1
       /\ delegs[1].fn = "set_subresource"
       /\ delegs[1].subresource = "versioning"
       /\ Concat(delegs[1].value)
            = "<?xml version=\"1.0\" encoding=\"UTF-8\"?>"
                \o "<VersioningConfiguration><Status>"
                \o StatusWord(call.enabled)
                \o "</Status></VersioningConfiguration>"

\* C11, amended: the body is the XML declaration, one newline, and then
\* <VersioningConfiguration><Status>S</Status></VersioningConfiguration>,
\* with nothing else in it, S being Enabled for true and Suspended for false;
\* one sub-resource set is made per call.
C11_VersioningBody ==
    (pc = "done" /\ call.op = "configure_versioning")
    => /\ Len(delegs) = 1
       /\ delegs[1].fn = "set_subresource"
       /\ delegs[1].subresource = "versioning"
       /\ Concat(delegs[1].value)
            = "<?xml version=\"1.0\" encoding=\"UTF-8\"?>" \o "\n"
                \o "<VersioningConfiguration><Status>"
                \o StatusWord(call.enabled)
                \o "</Status></VersioningConfiguration>"
       /\ Len(reqs) = 1
       /\ reqs[1].data = delegs[1].value

C11_Witness ==
    /\ pc = "done"
    /\ call.op = "configure_versioning"
    /\ call.enabled = FALSE
    /\ Len(delegs) = 1
    /\ delegs[1].value[5] = "Suspended"
    /\ result.kind = "return"

RECURSIVE AllItems(_)
\* the items of a series of pages, page after page
AllItems(pages) ==
    IF pages = <<>> THEN <<>>
    ELSE PageItems(pages[1].body) \o AllItems(Tail(pages))

\* C12: list_versions sends nothing; enumerating what it returns, on a
\* transport whose pages are all truncated but the last, yields the items of
\* the pages in page order and in-page order, fetches each page once, each
\* fetch after the first with the marker and generation marker of the page
\* before, and ends after the first page that is not truncated.
C12_PagedEnumeration ==
    (/\ call.op = "list_versions"
     /\ \A i \in DOMAIN resps : resps[i].status = 200)
    => /\ iter.state = "NotStarted" => reqs = <<>>
       /\ Len(reqs) = Len(resps) /\ Len(delegs) = Len(resps)
       /\ iter.yielded \o iter.buf = AllItems(resps)
       /\ \A i \in DOMAIN delegs :
            /\ delegs[i].fn = "get_all_versions"
            /\ delegs[i].prefix = call.prefix
            /\ delegs[i].delimiter = call.delimiter
            /\ delegs[i].marker
                 = (IF i = 1 THEN call.marker
                    ELSE PageNextMarker(resps[i - 1].body))
            /\ delegs[i].generation_marker
                 = (IF i = 1 THEN call.generation_marker
                    ELSE PageNextGenerationMarker(resps[i - 1].body))
       /\ \A i \in DOMAIN resps :
            i < Len(resps) => PageTruncated(resps[i].body)
       /\ iter.state = "Exhausted"
            => /\ Len(resps) >= 1
               /\ ~PageTruncated(resps[Len(resps)].body)
               /\ iter.yielded = AllItems(resps)
       /\ (/\ Len(resps) >= 1
           /\ ~PageTruncated(resps[Len(resps)].body)
           /\ iter.buf = <<>>)
            => ~ENABLED IterFetch

C12_Witness ==
    /\ call.op = "list_versions"
    /\ iter.state = "Exhausted"
    /\ Len(reqs) = 2
    /\ PageItems(resps[1].body) = <<"k1", "k2">>
    /\ PageNextMarker(resps[1].body) = "k2"
    /\ delegs[2].marker = "k2"
    /\ iter.yielded = <<"k1", "k2", "k1">>

\* both clients' calls completed without error
BothCompleted ==
    \A c \in Clients : clients[c].pc = "done" /\ clients[c].kind = "return"

\* the client whose PUT came first, and the one whose PUT came later
EarlierPut == CHOOSE c \in Clients : \A d \in Clients : clients[c].put_at <= clients[d].put_at

LaterPut == CHOOSE c \in Clients : c # EarlierPut

GrantOf(c) == Grant(clients[c].type, clients[c].id, clients[c].permission)

\* both GETs came before either PUT
Overlapped == clients[LaterPut].get_at < clients[EarlierPut].put_at

\* the ACL the server held before the two calls, as the first GET read it
AclBefore == ParseAcl(resps[1].body)

\* C13: the read-modify-write of the grant methods is not atomic: when two
\* calls on one bucket both complete and both GETs came before either PUT,
\* the server ends with the grant of the later PUT only; when the second GET
\* follows the first PUT, it ends with both grants.
C13_LastWriteWins ==
    BothCompleted
    => IF Overlapped
       THEN server = Append(AclBefore, GrantOf(LaterPut))
       ELSE server = AclBefore \o <<GrantOf(EarlierPut), GrantOf(LaterPut)>>

C13_Witness ==
    /\ BothCompleted
    /\ Overlapped
    /\ GrantOf(1) # GrantOf(2)
    /\ Len(AclBefore) = 1
    /\ server = Append(AclBefore, GrantOf(LaterPut))
    /\ \A i \in DOMAIN server : server[i] # GrantOf(EarlierPut)

\* the other case of C13, calls that do not overlap, does happen
C13_SequentialReached ==
    /\ BothCompleted
    /\ ~Overlapped
    /\ GrantOf(1) # GrantOf(2)
    /\ server = AclBefore \o <<GrantOf(EarlierPut), GrantOf(LaterPut)>>

\* the keys of the bucket as the listing request of a recursive call got them
ListingSeen ==
    IF Len(resps) >= 3 /\ resps[3].status = 200
    THEN SubSeq(resps[3].body, 2, Len(resps[3].body) - 1)
    ELSE <<>>

\* the key that the j-th request of a recursive call is about (j >= 4)
KeyAt(j) == ListingSeen[(j - 2) \div 2]

\* C14: a recursive grant call GETs and PUTs the bucket ACL first, lists the
\* bucket, then updates the keys one after another in listing order, each by
\* its own GET and PUT; the first failing request is the last request of the
\* call and its error is the call's outcome, the updates before it staying as
\* they are; without recursive the call sends the bucket GET and PUT only.
C14_RecursiveGrant ==
    (call.op \in GrantOps /\ call.permission \in GSPermissions)
    => LET n == Len(reqs)
           g == Grant(call.type, call.id, call.permission)
       IN  /\ Len(resps) = n
           /\ \A j \in 1..(n - 1) : resps[j].status = 200
           /\ n >= 1 => /\ reqs[1].method = "GET"
                        /\ reqs[1].key = Some("")
                        /\ reqs[1].query = STANDARD_ACL
           /\ n >= 2 => /\ reqs[2].method = "PUT"
                        /\ reqs[2].key = Some("")
                        /\ reqs[2].query = STANDARD_ACL
                        /\ ParseAcl(reqs[2].data)
                             = Append(ParseAcl(resps[1].body), g)
           /\ ~call.recursive => n <= 2
           /\ n >= 3 => /\ reqs[3].method = "GET"
                        /\ reqs[3].key = Some("")
                        /\ reqs[3].query = ""
           /\ n <= 3 + 2 * Len(ListingSeen)
           /\ \A j \in 4..n :
                 /\ reqs[j].key = Some(KeyAt(j))
                 /\ reqs[j].query = STANDARD_ACL
                 /\ IF j % 2 = 0
                    THEN reqs[j].method = "GET" /\ reqs[j].data = NoData
                    ELSE /\ reqs[j].method = "PUT"
                         /\ ParseAcl(reqs[j].data)
                              = Append(ParseAcl(resps[j - 1].body), g)
           /\ pc = "done"
              => IF resps[n].status # 200
                 THEN /\ result.kind = "raise"
                      /\ result.status = resps[n].status
                 ELSE /\ result.kind = "return"
                      /\ n = IF call.recursive
                             THEN 3 + 2 * Len(ListingSeen) ELSE 2

\* the update of the second of two keys fails at its GET: the bucket and the
\* first key have been PUT with the grant, and the call raises
C14_Witness ==
    /\ pc = "done"
    /\ call.op = "add_user_grant"
    /\ call.permission = "FULL_CONTROL"
    /\ call.recursive
    /\ ListingSeen = <<"k2", "k1">>
    /\ Len(reqs) = 6
    /\ reqs[5].method = "PUT" /\ reqs[5].key = Some("k2")
    /\ resps[5].status = 200
    /\ reqs[6].key = Some("k1")
    /\ resps[6].status = 500
    /\ result.kind = "raise"

\* other cases of C14 that do happen: the first key fails and the second gets
\* no request; every key is updated; the bucket update fails
C14_FirstKeyFails ==
    /\ pc = "done" /\ call.op \in GrantOps /\ call.recursive
    /\ Len(ListingSeen) = 2 /\ Len(reqs) = 5 /\ resps[5].status = 404

C14_AllKeysUpdated ==
    /\ pc = "done" /\ call.op \in GrantOps /\ call.recursive
    /\ Len(ListingSeen) = 2 /\ Len(reqs) = 7 /\ result.kind = "return"

C14_BucketFails ==
    /\ pc = "done" /\ call.op \in GrantOps /\ call.recursive
    /\ Len(reqs) = 2 /\ result.kind = "raise"

====
